---------------------------- MODULE Spec2Model ----------------------------
(***************************************************************************)
(* Synthy-Sound (src/main.cpp): a polyphonic software synthesizer.  The    *)
(* main thread polls keyboard events and edits the note registry           *)
(* (custom_data.notes) while holding the SDL audio-device lock; the SDL    *)
(* audio thread calls audio_callback, which renders every note of the      *)
(* registry into a buffer of 16-bit samples and advances the sample clock  *)
(* (custom_data.sample_nr).                                                *)
(*                                                                         *)
(* Arithmetic.  The code computes times and amplitudes in IEEE single      *)
(* precision.  The model computes them as exact rationals <<n, d>> (d > 0, *)
(* lowest terms), so a time is the exact quotient sample_nr / SAMPLE_RATE  *)
(* and the envelope is the exact piecewise-linear function the code        *)
(* evaluates.  sinf is modelled by a quarter-wave table with linear        *)
(* interpolation (absolute error below 0.0005); mixed samples are kept as  *)
(* 16-bit two's-complement integers.                                       *)
(***************************************************************************)
EXTENDS Integers, Sequences, FiniteSets

VARIABLES
    sample_nr,   \* AudioCustomData::sample_nr
    notes,       \* AudioCustomData::notes, a sequence of Note records
    lock,        \* owner of the SDL audio-device lock: "free", "main", "audio"
    ppc,         \* main thread position: "lock", "poll", "prune", "unlock", "delay", "done"
    rpc,         \* audio thread position: "idle" or "render" (inside audio_callback)
    length,      \* samples requested by the audio_callback invocation in progress
    quit,        \* main's quit flag
    held,        \* the keys the event source has reported down and not yet up
    nEvents,     \* number of events polled so far (bounded by MaxEvents)
    nPasses,     \* number of audio_callback invocations so far (bounded)
    emitted,     \* history: sum of the lengths of the completed invocations
    clock0,      \* history: sample_nr when the first invocation started
    cpc,         \* position inside audio_callback: "idle", "loop", "notes", "silence", "done"
    i,           \* audio_callback's loop index
    j,           \* position of the range-for over data->notes (1-based)
    buffer,      \* the Sint16 buffer handed to audio_callback
    wrote,       \* history: the set of buffer positions written by the invocation
    acc,         \* the int value of buffer[i] + contribution before it is narrowed
    entry,       \* history: notes and sample_nr when the invocation started
    envIn,       \* arguments <<t, timeOn, timeOff>> of a getAmplitude call
    envOut       \* its result, or "none" before the call

vars == <<sample_nr, notes, lock, ppc, rpc, length, quit, held, nEvents, nPasses,
          emitted, clock0, cpc, i, j, buffer, wrote, acc, entry, envIn, envOut>>

sysVars == <<lock, ppc, rpc, quit, held, nEvents>>
cbVars  == <<cpc, i, j, buffer, wrote, acc, entry>>
envVars == <<envIn, envOut>>

-----------------------------------------------------------------------------
(* Program constants *)

AMPLITUDE   == 20000
SAMPLE_RATE == 44100

-----------------------------------------------------------------------------
(* Exact rational arithmetic standing for the code's float arithmetic *)

RECURSIVE GCD(_, _)
GCD(a, b) == IF b = 0 THEN a ELSE GCD(b, a % b)

Abs(x) == IF x < 0 THEN -x ELSE x

\* n/d in lowest terms with a positive denominator
Rat(n, d) ==
    LET s == IF d < 0 THEN -1 ELSE 1
        g == GCD(Abs(n), Abs(d))
    IN  <<(s * n) \div g, (s * d) \div g>>

Zero == <<0, 1>>
One  == <<1, 1>>

RAdd(a, b) ==
    LET g == GCD(a[2], b[2])
    IN  Rat(a[1] * (b[2] \div g) + b[1] * (a[2] \div g), (a[2] \div g) * b[2])

RNeg(a) == <<-a[1], a[2]>>

RSub(a, b) == RAdd(a, RNeg(b))

\* cross-reduced, so intermediate products stay small
RMul(a, b) ==
    LET g1 == GCD(Abs(a[1]), b[2])
        g2 == GCD(Abs(b[1]), a[2])
    IN  Rat((a[1] \div g1) * (b[1] \div g2), (a[2] \div g2) * (b[2] \div g1))

\* b # 0
RDiv(a, b) == RMul(a, Rat(b[2], b[1]))

RSign(a) == IF a[1] > 0 THEN 1 ELSE IF a[1] < 0 THEN -1 ELSE 0

RLt(a, b) == RSign(RSub(a, b)) < 0
RLe(a, b) == RSign(RSub(a, b)) <= 0
RGt(a, b) == RLt(b, a)
RGe(a, b) == RLe(b, a)

\* (float)sample_nr / (float)SAMPLE_RATE
SoundTime(n) == Rat(n, SAMPLE_RATE)

-----------------------------------------------------------------------------
(* EnvelopeADSR *)

\* the envelope the Bell constructor sets (the only instrument main binds to keys)
Bell ==
    [ volume           |-> One,
      attackTime       |-> Rat(1, 100),
      decayTime        |-> One,
      startAmplitude   |-> One,
      sustainAmplitude |-> Zero,
      releaseTime      |-> One ]

\* the attack/decay/sustain value at lifeTime, as the held branch computes it
HeldAmplitude(env, lifeTime) ==
    IF RLe(lifeTime, env.attackTime)
    THEN RMul(RDiv(lifeTime, env.attackTime), env.startAmplitude)
    ELSE IF RLe(lifeTime, RAdd(env.attackTime, env.decayTime))
    THEN RAdd(RMul(RDiv(RSub(lifeTime, env.attackTime), env.decayTime),
                   RSub(env.sustainAmplitude, env.startAmplitude)),
              env.startAmplitude)
    ELSE env.sustainAmplitude

\* releaseAmplitude of the release branch: starts at 0.0f, then the same
\* attack/decay/sustain cases evaluated at lifeTime = timeOff - timeOn
ReleaseAmplitude(env, lifeTime) ==
    LET r0 == Zero
        r1 == IF RLe(lifeTime, env.attackTime)
              THEN RMul(RDiv(lifeTime, env.attackTime), env.startAmplitude)
              ELSE IF RLe(lifeTime, RAdd(env.attackTime, env.decayTime))
              THEN RAdd(RMul(RDiv(RSub(lifeTime, env.attackTime), env.decayTime),
                             RSub(env.sustainAmplitude, env.startAmplitude)),
                        env.startAmplitude)
              ELSE r0
    IN  IF RGt(lifeTime, RAdd(env.attackTime, env.decayTime))
        THEN env.sustainAmplitude
        ELSE r1

\* the branch test of getAmplitude: the held (ADS) branch is taken iff timeOn > timeOff
HeldBranch(timeOn, timeOff) == RGt(timeOn, timeOff)

getAmplitude(env, t, timeOn, timeOff) ==
    LET amplitude ==
            IF HeldBranch(timeOn, timeOff)
            THEN HeldAmplitude(env, RSub(t, timeOn))
            ELSE LET releaseAmplitude == ReleaseAmplitude(env, RSub(timeOff, timeOn))
                 IN  RAdd(RMul(RDiv(RSub(t, timeOff), env.releaseTime),
                               RSub(Zero, releaseAmplitude)),
                          releaseAmplitude)
    IN  IF RLt(amplitude, Zero) THEN Zero ELSE amplitude

-----------------------------------------------------------------------------
(* getWave, SINE case, in fixed point *)

\* scale of a modelled sinf value: SinFix(u) / SinScale is the sine
SinScale == 10000
\* scale of a quantised amplitude or instrument output
AmpScale == 10000
\* 2 * pi as the quotient TwoPiNum / TwoPiDen
TwoPiNum == 710
TwoPiDen == 113

\* sin(k * 90 / 25 degrees) * SinScale for k = 0 .. 25, at index k + 1
SinTable ==
    << 0, 628, 1253, 1874, 2487, 3090, 3681, 4258, 4818, 5358, 5878, 6374,
       6845, 7290, 7705, 8090, 8443, 8763, 9048, 9298, 9511, 9686, 9823, 9921,
       9980, 10000 >>

Quarter  == SAMPLE_RATE \div 4
TabStep  == Quarter \div (Len(SinTable) - 1)

\* the first quadrant, x in 0 .. Quarter, by linear interpolation in SinTable
SinQuadrant(x) ==
    LET k == x \div TabStep
        r == x % TabStep
    IN  IF k >= Len(SinTable) - 1
        THEN SinTable[Len(SinTable)]
        ELSE SinTable[k + 1] + ((SinTable[k + 2] - SinTable[k + 1]) * r) \div TabStep

\* sinf of a phase of u / SAMPLE_RATE turns, times SinScale
SinFix(u) ==
    LET m == u % SAMPLE_RATE
    IN  IF m <= Quarter THEN SinQuadrant(m)
        ELSE IF m <= 2 * Quarter THEN SinQuadrant(2 * Quarter - m)
        ELSE IF m <= 3 * Quarter THEN -SinQuadrant(m - 2 * Quarter)
        ELSE -SinQuadrant(4 * Quarter - m)

\* float -> integer conversion: the quotient a / b truncated toward zero (b > 0)
Trunc(a, b) == IF a >= 0 THEN a \div b ELSE -((-a) \div b)

\* the sample index of a time that is a whole number of sample periods
Ticks(t) == t[1] * (SAMPLE_RATE \div t[2])

\* a rational amplitude as an integer number of 1 / AmpScale
Quantize(a) ==
    LET s == (a[2] \div 100000) + 1
        n == a[1] \div s
        d == a[2] \div s
    IN  Trunc(n * AmpScale, d)

\* getWave(WaveType::SINE, t, hertz, fmAmplitude, fmHertz) * SinScale, the
\* frequencies and fmAmplitude being rationals.
\* freq = H2W(hertz) * t + fmAmplitude * hertz * sinf(H2W(fmHertz) * t) radians,
\* held here in units of 1 / SAMPLE_RATE turn: hertz * t turns is hertz * Ticks(t)
\* units, and x radians are x * SAMPLE_RATE / (2 * pi) units.
getWaveSine(t, hertz, fmAmplitude, fmHertz) ==
    LET n     == Ticks(t)
        fmSin == SinFix(Trunc(fmHertz[1] * n, fmHertz[2]))
        \* fmAmplitude * hertz * sinf(...), in 1 / AmpScale radians
        dev   == Trunc(Quantize(RMul(fmAmplitude, hertz)) * fmSin, SinScale)
        k     == Rat(SAMPLE_RATE * TwoPiDen, TwoPiNum * AmpScale)
    IN  SinFix(Trunc(hertz[1] * n, hertz[2]) + Trunc(dev * k[1], k[2]))

\* Bell::sound, the envelope value of the note at time t
BellAmplitude(t, timeOn, timeOff) == getAmplitude(Bell, t, timeOn, timeOff)

\* Bell::sound, noteIsAlive = amplitude > 0.0f
BellAlive(t, timeOn, timeOff) == RGt(BellAmplitude(t, timeOn, timeOff), Zero)

\* Bell::sound, the returned value times AmpScale
BellResult(hertz, t, timeOn, timeOff) ==
    LET mix4 == 4 * getWaveSine(t, RMul(hertz, <<2, 1>>), Rat(1, 1000), <<5, 1>>)
              + 2 * getWaveSine(t, RMul(hertz, <<3, 1>>), Zero, Zero)
              +     getWaveSine(t, RMul(hertz, <<4, 1>>), Zero, Zero)
    IN  Trunc(Quantize(RMul(Bell.volume, BellAmplitude(t, timeOn, timeOff))) * mix4,
              4 * SinScale)

\* initializeKeyMap: note.freq = 440.0f * powf(2, (id - 12) / 12) for the ids
\* 0 .. 12, in thousandths of a hertz, at index id + 1
FreqMilli ==
    << 220000, 233082, 246942, 261626, 277183, 293665, 311127, 329628, 349228,
       369994, 391995, 415305, 440000 >>

Freq(id) == Rat(FreqMilli[id + 1], 1000)

\* (Sint16)(AMPLITUDE/4 * result)
Contribution(resultFix) == Trunc((AMPLITUDE \div 4) * resultFix, AmpScale)

\* conversion of an int to Sint16: modulo 2^16 into -32768 .. 32767
Wrap16(x) == ((x + 32768) % 65536) - 32768

-----------------------------------------------------------------------------
(* Bounds and input sets *)

\* want.samples: the number of samples SDL requests per invocation
SAMPLES == 512
\* a burst: this many back-to-back invocations with no main-thread step between
\* them, which leave the notes and the clock as one invocation of Burst * SAMPLES
Burst == 86
MaxEvents == 4
MaxPasses == 4
MaxClock == 47000
MaxLen == 3
MaxCalls == 2

\* the mapped keys the model presses (note ids)
Keys == {0, 12}

\* every mapped key
AllKeys == 0 .. (Len(FreqMilli) - 1)

\* lengths of the invocations of the concurrent system
PassLengths == {SAMPLES, Burst * SAMPLES, (Burst + 1) * SAMPLES}

\* Note(): the key map's template with id, and the fields KEYDOWN sets; nOff and
\* firstOff are history: how often KEYUP wrote timeOff, and the first value
NewNote(id, now) ==
    [ id |-> id, timeOn |-> now, timeOff |-> Zero, active |-> TRUE,
      nOff |-> 0, firstOff |-> Zero ]

IsActive(n) == n.active

-----------------------------------------------------------------------------
(* audio_callback as one step: the state it leaves *)

\* note.active after the mixing loop: every sample overwrites it, so it is the
\* value for the last sample, sample_nr + len - 1
PassNotes(ns, clock, len) ==
    IF len <= 0 THEN ns
    ELSE [ x \in DOMAIN ns |->
             [ ns[x] EXCEPT !.active =
                 BellAlive(SoundTime(clock + len - 1), ns[x].timeOn, ns[x].timeOff) ] ]

\* sample_nr after the invocation: the mixing loop adds len, and the silence
\* loop, taken when the registry is empty, adds len again
PassClock(ns, clock, len) ==
    IF len <= 0 THEN clock
    ELSE clock + len + (IF ns = <<>> THEN len ELSE 0)

-----------------------------------------------------------------------------
(* The concurrent system: main's loop and the SDL audio thread *)

InitRest ==
    /\ length = 0 /\ nPasses = 0 /\ emitted = 0 /\ clock0 = 0
    /\ cpc = "idle" /\ i = 0 /\ j = 1 /\ buffer = <<>> /\ wrote = {} /\ acc = 0
    /\ entry = [notes |-> <<>>, sample_nr |-> 0]
    /\ envIn = <<Zero, Zero, Zero>> /\ envOut = "none"

Init ==
    /\ sample_nr = 0 /\ notes = <<>>
    /\ lock = "free" /\ ppc = "lock" /\ rpc = "idle" /\ quit = FALSE
    /\ held = {} /\ nEvents = 0
    /\ InitRest

\* a faulty lock: taken without waiting for the audio thread to leave the callback
LockWithoutWaiting ==
    /\ ppc = "lock"
    /\ lock' = "main" /\ ppc' = "poll"
    /\ UNCHANGED <<sample_nr, notes, rpc, length, quit, held, nEvents, nPasses, emitted,
                   clock0, cbVars, envVars>>

\* SDL_LockAudioDevice: blocks until no callback is running
SDL_LockAudioDevice ==
    /\ ppc = "lock" /\ lock = "free"
    /\ lock' = "main" /\ ppc' = "poll"
    /\ UNCHANGED <<sample_nr, notes, rpc, length, quit, held, nEvents, nPasses, emitted,
                   clock0, cbVars, envVars>>

PollFrame == <<sample_nr, lock, ppc, rpc, length, nPasses, emitted, clock0, cbVars, envVars>>

\* SDL_KEYDOWN, not flagged as a repeat, of a mapped key (the key may already be
\* down: the duplicate-note case)
KeyDown(k) ==
    /\ ppc = "poll" /\ nEvents < MaxEvents
    /\ notes' = Append(notes, NewNote(k, SoundTime(sample_nr)))
    /\ held' = held \cup {k}
    /\ nEvents' = nEvents + 1
    /\ UNCHANGED <<quit, PollFrame>>

\* a faulty key-up: stops at the first note of the id
ReleaseFirst(ns, k, now) ==
    LET hits == {x \in DOMAIN ns : ns[x].id = k}
    IN  [ x \in DOMAIN ns |->
            IF x \in hits /\ \A y \in hits : x <= y
            THEN [ ns[x] EXCEPT !.timeOff = now, !.nOff = @ + 1,
                                !.firstOff = IF ns[x].nOff = 0 THEN now ELSE @ ]
            ELSE ns[x] ]

\* the SDL_KEYUP loop: n.timeOff = sound_time for every note with n.id == note_id
ReleaseAll(ns, k, now) ==
    [ x \in DOMAIN ns |->
        IF ns[x].id = k
        THEN [ ns[x] EXCEPT !.timeOff = now, !.nOff = @ + 1,
                            !.firstOff = IF ns[x].nOff = 0 THEN now ELSE @ ]
        ELSE ns[x] ]

\* SDL_KEYUP of a mapped key (SDL reports a key up only after it reported it down)
KeyUp(k) ==
    /\ ppc = "poll" /\ nEvents < MaxEvents /\ k \in held
    /\ notes' = ReleaseAll(notes, k, SoundTime(sample_nr))
    /\ held' = held \ {k}
    /\ nEvents' = nEvents + 1
    /\ UNCHANGED <<quit, PollFrame>>

\* a repeated key-down, or a key that is not in key_to_note: nothing changes
IgnoredEvent ==
    /\ ppc = "poll" /\ nEvents < MaxEvents
    /\ nEvents' = nEvents + 1
    /\ UNCHANGED <<notes, quit, held, PollFrame>>

\* SDL_QUIT
QuitEvent ==
    /\ ppc = "poll" /\ nEvents < MaxEvents /\ ~quit
    /\ quit' = TRUE
    /\ nEvents' = nEvents + 1
    /\ UNCHANGED <<notes, held, PollFrame>>

\* SDL_PollEvent returns 0: the event loop ends
PollDone ==
    /\ ppc = "poll"
    /\ ppc' = "prune"
    /\ UNCHANGED <<sample_nr, notes, lock, rpc, length, quit, held, nEvents, nPasses,
                   emitted, clock0, cbVars, envVars>>

\* notes.erase(remove_if(..., !n.active), ...)
Prune ==
    /\ ppc = "prune"
    /\ notes' = SelectSeq(notes, IsActive)
    /\ ppc' = "unlock"
    /\ UNCHANGED <<sample_nr, lock, rpc, length, quit, held, nEvents, nPasses, emitted,
                   clock0, cbVars, envVars>>

SDL_UnlockAudioDevice ==
    /\ ppc = "unlock"
    /\ lock' = "free" /\ ppc' = "delay"
    /\ UNCHANGED <<sample_nr, notes, rpc, length, quit, held, nEvents, nPasses, emitted,
                   clock0, cbVars, envVars>>

\* SDL_Delay, then while(!quit) takes the next round
LoopAgain ==
    /\ ppc = "delay" /\ ~quit
    /\ ppc' = "lock"
    /\ UNCHANGED <<sample_nr, notes, lock, rpc, length, quit, held, nEvents, nPasses,
                   emitted, clock0, cbVars, envVars>>

\* the loop ends; SDL_CloseAudioDevice waits for a running callback and stops the device
SDL_CloseAudioDevice ==
    /\ ppc = "delay" /\ quit /\ lock = "free"
    /\ ppc' = "done"
    /\ UNCHANGED <<sample_nr, notes, lock, rpc, length, quit, held, nEvents, nPasses,
                   emitted, clock0, cbVars, envVars>>

\* the audio thread takes the device lock and calls audio_callback(len samples)
AudioThreadEnter(len) ==
    /\ rpc = "idle" /\ lock = "free" /\ ppc # "done"
    /\ nPasses < MaxPasses /\ PassClock(notes, sample_nr, len) <= MaxClock
    /\ lock' = "audio" /\ rpc' = "render" /\ length' = len
    /\ nPasses' = nPasses + 1
    /\ UNCHANGED <<sample_nr, notes, ppc, quit, held, nEvents, emitted, clock0, cbVars, envVars>>

\* audio_callback runs to its end and the audio thread releases the lock
audio_callback ==
    /\ rpc = "render"
    /\ notes' = PassNotes(notes, sample_nr, length)
    /\ sample_nr' = PassClock(notes, sample_nr, length)
    /\ emitted' = emitted + length
    /\ lock' = "free" /\ rpc' = "idle"
    /\ UNCHANGED <<ppc, length, quit, held, nEvents, nPasses, clock0, cbVars, envVars>>

Next ==
    \/ SDL_LockAudioDevice
    \/ \E k \in Keys : KeyDown(k)
    \/ \E k \in Keys : KeyUp(k)
    \/ IgnoredEvent
    \/ QuitEvent
    \/ PollDone
    \/ Prune
    \/ SDL_UnlockAudioDevice
    \/ LoopAgain
    \/ SDL_CloseAudioDevice
    \/ \E len \in PassLengths : AudioThreadEnter(len)
    \/ audio_callback

Spec == Init /\ [][Next]_vars

-----------------------------------------------------------------------------
(* Claims about the concurrent system (specification Spec) *)

\* the main thread is between SDL_LockAudioDevice and SDL_UnlockAudioDevice
InProducerSection == ppc \in {"poll", "prune", "unlock"}

\* the audio thread is inside audio_callback
InRenderPass == rpc = "render"

\* a step of audio_callback that rendered at least one sample
RenderStep == sample_nr' # sample_nr

\* the note is evaluated on the release branch from a positive release amplitude
PositiveRelease(n) ==
    /\ ~HeldBranch(n.timeOn, n.timeOff)
    /\ RGt(ReleaseAmplitude(Bell, RSub(n.timeOff, n.timeOn)), Zero)

\* C2: a note that a key-up has already released keeps its timeOff under every
\* later key-up of its id (timeOff is set exactly once).
C2_TimeOffSetOnce ==
    [][ \A x \in DOMAIN notes :
          (Len(notes') = Len(notes) /\ notes[x].nOff >= 1 /\ notes'[x].nOff > notes[x].nOff)
              => notes'[x].timeOff = notes[x].timeOff ]_vars

\* C3: the main thread's poll-and-prune section and a render pass never overlap,
\* and whoever is inside holds the device lock.
C3_MutualExclusion ==
    /\ ~(InProducerSection /\ InRenderPass)
    /\ (InProducerSection => lock = "main")
    /\ (InRenderPass => lock = "audio")

\* C3 witness: a render pass over a non-empty registry is in progress while the
\* main thread waits at SDL_LockAudioDevice.
C3_Witness == InRenderPass /\ ppc = "lock" /\ notes # <<>> /\ nEvents > 0

\* C5: a note no key-up has touched is evaluated on the held branch of the
\* envelope, whatever the clock was at its key-down (0 included).
C5_HeldUntilKeyUp ==
    \A x \in DOMAIN notes :
        notes[x].nOff = 0 => HeldBranch(notes[x].timeOn, notes[x].timeOff)

\* C8 as claimed: two notes of one id released by the same single key-up get the
\* same active flag from every render pass (they become inactive together).
C8_DuplicatesDieTogether ==
    [][ RenderStep =>
          \A x, y \in DOMAIN notes :
              ( /\ notes[x].id = notes[y].id
                /\ notes[x].nOff = 1 /\ notes[y].nOff = 1
                /\ notes[x].timeOff = notes[y].timeOff )
                  => notes'[x].active = notes'[y].active ]_vars

\* C8 amended: a key-up of id k at time T writes timeOff = T into every note of
\* id k in the registry; every render pass gives the same active flag to two
\* notes of one id that share timeOff and both start their release from a
\* positive amplitude; and a prune removes all the inactive notes and no other.
C8_PositiveDuplicatesDieTogether ==
    [][ /\ \A x \in DOMAIN notes :
              (Len(notes') = Len(notes) /\ notes'[x].nOff > notes[x].nOff)
                  => \A y \in DOMAIN notes :
                        notes[y].id = notes[x].id
                            => /\ notes'[y].timeOff = SoundTime(sample_nr)
                               /\ notes'[y].nOff > notes[y].nOff
        /\ RenderStep =>
              \A x, y \in DOMAIN notes :
                  ( /\ notes[x].id = notes[y].id
                    /\ notes[x].timeOff = notes[y].timeOff
                    /\ PositiveRelease(notes[x]) /\ PositiveRelease(notes[y]) )
                      => notes'[x].active = notes'[y].active
        /\ Len(notes') < Len(notes) =>
              /\ \A x \in DOMAIN notes' : notes'[x].active
              /\ Len(notes') = Cardinality({x \in DOMAIN notes : notes[x].active}) ]_vars

\* C8 witness: two notes of one id, released by one key-up from positive
\* amplitudes, have both been marked inactive.
C8_Witness ==
    \E x, y \in DOMAIN notes :
        /\ x < y /\ notes[x].id = notes[y].id
        /\ notes[x].nOff = 1 /\ notes[y].nOff = 1
        /\ notes[x].timeOff = notes[y].timeOff
        /\ notes[x].timeOn # notes[y].timeOn
        /\ PositiveRelease(notes[x]) /\ PositiveRelease(notes[y])
        /\ ~notes[x].active /\ ~notes[y].active

\* C9: once a key-up at time T has released a note, every render pass whose last
\* sample time is at least T + releaseTime marks the note inactive.
C9_InactiveAfterRelease ==
    [][ RenderStep =>
          \A x \in DOMAIN notes :
              ( /\ notes[x].nOff >= 1
                /\ RGe(SoundTime(sample_nr' - 1),
                       RAdd(notes[x].firstOff, Bell.releaseTime)) )
                  => ~notes'[x].active ]_vars

-----------------------------------------------------------------------------
(* audio_callback sample by sample (specification SpecRender).  It is entered  *)
(* with the registry and clock of RenderInputs and requests 0 .. MaxLen        *)
(* samples; the registry is not touched from outside while it runs.            *)

\* a note that has been held since sample on
HeldNote(id, on) == NewNote(id, SoundTime(on))

\* a note pressed at sample on and released, once, at sample off
ReleasedNote(id, on, off) ==
    [ NewNote(id, SoundTime(on)) EXCEPT
        !.timeOff = SoundTime(off), !.nOff = 1, !.firstOff = SoundTime(off) ]

\* the registries and clocks the invocations start from:
\*   the program's initial state;
\*   a note at the very sample of its key-down;
\*   a held and a released note;
\*   a released note one sample before the end of its release;
\*   all thirteen mapped keys, pressed in one poll cycle at sample 1536, 379
\*   samples later
RenderInputs ==
    { [ notes |-> <<>>, sample_nr |-> 0 ],
      [ notes |-> << HeldNote(12, 1024) >>, sample_nr |-> 1024 ],
      [ notes |-> << HeldNote(0, 1024), ReleasedNote(12, 1024, 1536) >>,
        sample_nr |-> 2048 ],
      [ notes |-> << ReleasedNote(0, 1024, 1536) >>, sample_nr |-> 45635 ],
      [ notes |-> [ x \in 1 .. Len(FreqMilli) |-> HeldNote(x - 1, 1536) ],
        sample_nr |-> 1915 ] }

InitRender ==
    /\ \E in \in RenderInputs :
          /\ notes = in.notes /\ sample_nr = in.sample_nr
          /\ clock0 = in.sample_nr /\ entry = in
    /\ lock = "free" /\ ppc = "lock" /\ rpc = "idle" /\ quit = FALSE
    /\ held = {} /\ nEvents = 0
    /\ length = 0 /\ nPasses = 0 /\ emitted = 0
    /\ cpc = "idle" /\ i = 0 /\ j = 1 /\ buffer = <<>> /\ wrote = {} /\ acc = 0
    /\ envIn = <<Zero, Zero, Zero>> /\ envOut = "none"

\* buffer[idx] = v; a position outside the buffer is recorded in wrote only
Store(buf, idx, v) == IF idx \in DOMAIN buf THEN [buf EXCEPT ![idx] = v] ELSE buf

\* audio_callback(user_data, raw_buffer, 2 * len) is called: the buffer holds len
\* samples of unspecified content
CallbackEnter(len) ==
    /\ cpc = "idle" /\ nPasses < MaxCalls
    /\ length' = len /\ nPasses' = nPasses + 1
    /\ buffer' = [x \in 0 .. (len - 1) |-> "unset"] /\ wrote' = {}
    /\ i' = 0 /\ j' = 1 /\ acc' = 0
    /\ entry' = [notes |-> notes, sample_nr |-> sample_nr]
    /\ cpc' = "loop"
    /\ UNCHANGED <<sample_nr, notes, emitted, clock0, sysVars, envVars>>

\* mixing loop, i < length: buffer[i] = 0 and the range-for starts
MixBegin ==
    /\ cpc = "loop" /\ i < length
    /\ buffer' = Store(buffer, i, 0) /\ wrote' = wrote \cup {i}
    /\ j' = 1 /\ cpc' = "notes"
    /\ UNCHANGED <<sample_nr, notes, length, nPasses, emitted, clock0, i, acc, entry,
                   sysVars, envVars>>

\* one round of the range-for: note.active = alive;
\* buffer[i] += (Sint16)(AMPLITUDE/4 * result)
MixNote ==
    /\ cpc = "notes" /\ j <= Len(notes)
    /\ LET note == notes[j]
           time == SoundTime(sample_nr)
           c    == Contribution(BellResult(Freq(note.id), time, note.timeOn, note.timeOff))
       IN  /\ notes' = [notes EXCEPT ![j].active =
                          BellAlive(time, note.timeOn, note.timeOff)]
           /\ acc' = buffer[i] + c
           /\ buffer' = Store(buffer, i, Wrap16(buffer[i] + c))
    /\ j' = j + 1
    /\ UNCHANGED <<sample_nr, length, nPasses, emitted, clock0, cpc, i, wrote, entry,
                   sysVars, envVars>>

\* the range-for is over: ++i, data->sample_nr++
MixNext ==
    /\ cpc = "notes" /\ j > Len(notes)
    /\ i' = i + 1 /\ sample_nr' = sample_nr + 1
    /\ cpc' = "loop"
    /\ UNCHANGED <<notes, length, nPasses, emitted, clock0, j, buffer, wrote, acc, entry,
                   sysVars, envVars>>

\* the mixing loop is over: if (data->notes.empty()) enters the silence loop at i = 0
MixEnd ==
    /\ cpc = "loop" /\ i >= length
    /\ IF notes = <<>> THEN cpc' = "silence" /\ i' = 0
                       ELSE cpc' = "done" /\ i' = i
    /\ UNCHANGED <<sample_nr, notes, length, nPasses, emitted, clock0, j, buffer, wrote,
                   acc, entry, sysVars, envVars>>

\* a faulty silence loop: buffer[++i] = 0
SilenceStepPreIncrement ==
    /\ cpc = "silence" /\ i < length
    /\ buffer' = Store(buffer, i + 1, 0) /\ wrote' = wrote \cup {i + 1}
    /\ i' = i + 1 /\ sample_nr' = sample_nr + 1
    /\ UNCHANGED <<notes, length, nPasses, emitted, clock0, cpc, j, acc, entry,
                   sysVars, envVars>>

\* silence loop, i < length: buffer[i++] = (Sint16)(0.0f); data->sample_nr++
SilenceStep ==
    /\ cpc = "silence" /\ i < length
    /\ buffer' = Store(buffer, i, 0) /\ wrote' = wrote \cup {i}
    /\ i' = i + 1 /\ sample_nr' = sample_nr + 1
    /\ UNCHANGED <<notes, length, nPasses, emitted, clock0, cpc, j, acc, entry,
                   sysVars, envVars>>

SilenceEnd ==
    /\ cpc = "silence" /\ i >= length
    /\ cpc' = "done"
    /\ UNCHANGED <<sample_nr, notes, length, nPasses, emitted, clock0, i, j, buffer,
                   wrote, acc, entry, sysVars, envVars>>

\* audio_callback returns: length more samples have been handed to the device
CallbackReturn ==
    /\ cpc = "done"
    /\ emitted' = emitted + length
    /\ cpc' = "idle"
    /\ UNCHANGED <<sample_nr, notes, length, nPasses, clock0, i, j, buffer, wrote, acc,
                   entry, sysVars, envVars>>

NextRender ==
    \/ \E len \in 0 .. MaxLen : CallbackEnter(len)
    \/ MixBegin
    \/ MixNote
    \/ MixNext
    \/ MixEnd
    \/ SilenceStep
    \/ SilenceEnd
    \/ CallbackReturn

SpecRender == InitRender /\ [][NextRender]_vars

\* the one-step audio_callback of Spec leaves the notes and the clock that the
\* sample-by-sample audio_callback leaves
PassSummaryAgrees ==
    cpc = "done" =>
        /\ notes = PassNotes(entry.notes, entry.sample_nr, length)
        /\ sample_nr = PassClock(entry.notes, entry.sample_nr, length)

\* C1: between invocations the sample clock equals the number of samples the
\* callback has emitted (counted from the clock the first invocation found).
C1_ClockCountsSamples == cpc = "idle" => sample_nr = clock0 + emitted

\* C4: an invocation over an empty registry has, when it returns, written the
\* positions 0 .. length-1 and no other, and every one of them holds 0.
C4_Silence ==
    (cpc = "done" /\ entry.notes = <<>>) =>
        /\ wrote = 0 .. (length - 1)
        /\ \A x \in 0 .. (length - 1) : buffer[x] = 0

\* C4 witness: an invocation of at least two samples over the empty registry is
\* about to return.
C4_Witness == cpc = "done" /\ entry.notes = <<>> /\ length >= 2 /\ i = length

\* C10: the int value of buffer[i] + contribution fits a Sint16 at every
\* addition, so the narrowing never wraps.
C10_NoOverflow == acc \in -32768 .. 32767

-----------------------------------------------------------------------------
(* EnvelopeADSR::getAmplitude on its own (specification SpecEnv) *)

\* the argument values, in seconds
EnvTimes ==
    { Zero, Rat(1, 200), Rat(1, 100), Rat(1, 2), One, Rat(201, 200), Rat(101, 100),
      Rat(3, 2), Rat(2, 1) }

InitEnv ==
    /\ envIn \in EnvTimes \X EnvTimes \X EnvTimes
    /\ envOut = "none"
    /\ sample_nr = 0 /\ notes = <<>>
    /\ lock = "free" /\ ppc = "lock" /\ rpc = "idle" /\ quit = FALSE
    /\ held = {} /\ nEvents = 0
    /\ length = 0 /\ nPasses = 0 /\ emitted = 0 /\ clock0 = 0
    /\ cpc = "idle" /\ i = 0 /\ j = 1 /\ buffer = <<>> /\ wrote = {} /\ acc = 0
    /\ entry = [notes |-> <<>>, sample_nr |-> 0]

\* bell.envelope.getAmplitude(t, timeOn, timeOff) is called
EvalEnvelope ==
    /\ envOut = "none"
    /\ envOut' = getAmplitude(Bell, envIn[1], envIn[2], envIn[3])
    /\ UNCHANGED <<sample_nr, notes, length, nPasses, emitted, clock0, cbVars, sysVars, envIn>>

NextEnv == EvalEnvelope

SpecEnv == InitEnv /\ [][NextEnv]_vars

\* C6: with timeOff = 0 and timeOn >= 0, the amplitude during the attack,
\* 0 <= t - timeOn <= attackTime, is ((t - timeOn) / attackTime) * startAmplitude.
C6_LinearAttack ==
    LET t == envIn[1]
        timeOn == envIn[2]
        timeOff == envIn[3]
        x == RSub(t, timeOn)
    IN  ( /\ envOut # "none" /\ timeOff = Zero
          /\ RGe(timeOn, Zero) /\ RGe(x, Zero) /\ RLe(x, Bell.attackTime) )
            => envOut = RMul(RDiv(x, Bell.attackTime), Bell.startAmplitude)

\* C7: for t < timeOn the amplitude is 0, whatever timeOff is.
C7_ZeroBeforeOn ==
    (envOut # "none" /\ RLt(envIn[1], envIn[2])) => envOut = Zero

=============================================================================
